---- MODULE Spec2Model ----
(***************************************************************************)
(* Model of src/app.py: the /webhook handler of the MEXC futures bridge    *)
(* and the order client place_mexc_futures_order it calls.                 *)
(*                                                                         *)
(* One request is processed at a time, statement block by statement block  *)
(* (pc names the block that runs next).  Every outbound call (CCXT or      *)
(* REST) is appended to `calls`, and its outcome is chosen by the          *)
(* environment.  Text is a sequence of one-character strings so that       *)
(* upper(), lower(), strip(), split(".") and endswith() are computed.      *)
(* Prices and balances are fixed-point integers in hundredths (Scale),     *)
(* quantities in thousandths (QtyScale).                                   *)
(***************************************************************************)
EXTENDS Integers, Sequences, FiniteSets, TLC

VARIABLES
    pc,         \* the block of webhook() that runs next
    req,        \* the decoded JSON body of the request being processed
    calls,      \* outbound calls made for this request, in order
    markets,    \* exchange.markets of the per-request CCXT client
    resolved,   \* base, quote, unified_symbol, market_id of the request
    entry_price,\* float(entry_price), in hundredths
    usdt_bal,   \* the USDT balance read, in hundredths (or None)
    is_long,    \* side.strip().lower() == "long"
    lev,        \* what happened to exchange.set_leverage
    qty,        \* the order quantity, in thousandths, and how it was rounded
    entry,      \* what the entry order's place_mexc_futures_order call did
    open_resp,  \* result of the entry order
    tp,         \* tp_price and result of the take-profit order
    http,       \* the venue's reply to each order submission posted
    response,   \* the HTTP response of webhook()
    bal,        \* what fetch_balance() did for this request
    signing     \* sign_request() applied to a parameter dict and to a variant

vars == <<pc, req, calls, markets, resolved, entry_price, usdt_bal, is_long,
          lev, qty, entry, open_resp, tp, http, response, bal, signing>>

----------------------------------------------------------------------------
(* Configuration read at import time. *)

\* DEFAULT_LEVERAGE = int(os.getenv("LEVERAGE", "25"))
DEFAULT_LEVERAGE == 25

\* RISK_RATIO = float(os.getenv("RISK_RATIO", "1.0"))
RISK_RATIO == 1

\* round(qty, 3): decimals of the fallback quantity rounding
QtyDecimals == 3

\* round(tp_price, 2): decimals of the fallback price rounding
PriceDecimals == 2

\* 10^n
RECURSIVE Pow10(_)
Pow10(n) == IF n = 0 THEN 1 ELSE 10 * Pow10(n - 1)

\* Fixed-point scale of prices and balances: hundredths.
Scale == Pow10(PriceDecimals)

\* Fixed-point scale of quantities: thousandths.
QtyScale == Pow10(QtyDecimals)

----------------------------------------------------------------------------
(* Python values. *)

None == [k |-> "none", v |-> 0]
Num(x) == [k |-> "num", v |-> x]

\* a JSON value of the request body: absent/null, a string, or a number
JNone == [t |-> "none", s |-> <<>>, n |-> 0]
JStr(chars) == [t |-> "str", s |-> chars, n |-> 0]
JNum(x) == [t |-> "num", s |-> <<>>, n |-> x]

\* bool(v) of a JSON value, as all([...]) evaluates it
Truthy(v) ==
    CASE v.t = "none" -> FALSE
      [] v.t = "str" -> v.s # <<>>
      [] v.t = "num" -> v.n # 0

LowerAlpha == <<"a","b","c","d","e","f","g","h","i","j","k","l","m",
                "n","o","p","q","r","s","t","u","v","w","x","y","z">>
UpperAlpha == <<"A","B","C","D","E","F","G","H","I","J","K","L","M",
                "N","O","P","Q","R","S","T","U","V","W","X","Y","Z">>

UpperChar(c) ==
    IF \E i \in 1..26 : LowerAlpha[i] = c
    THEN UpperAlpha[CHOOSE i \in 1..26 : LowerAlpha[i] = c]
    ELSE c

LowerChar(c) ==
    IF \E i \in 1..26 : UpperAlpha[i] = c
    THEN LowerAlpha[CHOOSE i \in 1..26 : UpperAlpha[i] = c]
    ELSE c

\* str.upper()
Upper(s) == [i \in 1..Len(s) |-> UpperChar(s[i])]

\* str.lower()
Lower(s) == [i \in 1..Len(s) |-> LowerChar(s[i])]

SetMin(S) == CHOOSE x \in S : \A y \in S : x <= y
SetMax(S) == CHOOSE x \in S : \A y \in S : x >= y

\* str.strip(): leading and trailing blanks removed
Strip(s) ==
    LET keep == {i \in 1..Len(s) : s[i] # " "}
    IN  IF keep = {} THEN <<>> ELSE SubSeq(s, SetMin(keep), SetMax(keep))

\* str.split(".")[0]: the text before the first "."
SplitDotFirst(s) ==
    LET dots == {i \in 1..Len(s) : s[i] = "."}
    IN  IF dots = {} THEN s ELSE SubSeq(s, 1, SetMin(dots) - 1)

\* str.endswith(suffix)
EndsWith(s, suffix) ==
    /\ Len(s) >= Len(suffix)
    /\ SubSeq(s, Len(s) - Len(suffix) + 1, Len(s)) = suffix

USDT == <<"U","S","D","T">>
LONG == <<"l","o","n","g">>
SHORT == <<"s","h","o","r","t">>

Digits == <<"0","1","2","3","4","5","6","7","8","9">>
IsDigit(c) == \E i \in 1..10 : Digits[i] = c
DigitVal(c) == (CHOOSE i \in 1..10 : Digits[i] = c) - 1

RECURSIVE DigitsVal(_)
DigitsVal(s) ==
    IF s = <<>> THEN 0
    ELSE 10 * DigitsVal(SubSeq(s, 1, Len(s) - 1)) + DigitVal(s[Len(s)])

\* float(text) for the decimal literals [+-]digits[.digits] (at most two
\* fraction digits; blanks around are stripped as float() does): the value in
\* hundredths, or None where float() raises ValueError.
ParseFloat(text) ==
    LET s == Strip(text)
        neg == s # <<>> /\ s[1] = "-"
        body == IF s # <<>> /\ s[1] \in {"-", "+"} THEN Tail(s) ELSE s
        dots == {i \in 1..Len(body) : body[i] = "."}
        ip == IF dots = {} THEN body ELSE SubSeq(body, 1, SetMin(dots) - 1)
        fp == IF dots = {} THEN <<>>
              ELSE SubSeq(body, SetMin(dots) + 1, Len(body))
        wellFormed ==
            /\ Cardinality(dots) <= 1
            /\ Len(ip) + Len(fp) > 0
            /\ Len(fp) <= PriceDecimals
            /\ \A i \in 1..Len(ip) : IsDigit(ip[i])
            /\ \A i \in 1..Len(fp) : IsDigit(fp[i])
        mag == DigitsVal(ip) * Scale
               + DigitsVal(fp) * Pow10(PriceDecimals - Len(fp))
    IN  IF ~wellFormed THEN None
        ELSE Num(IF neg THEN 0 - mag ELSE mag)

\* float(v) of a JSON value that passed the truthiness test
ToFloat(v) ==
    CASE v.t = "num" -> Num(v.n)
      [] v.t = "str" -> ParseFloat(v.s)
      [] OTHER -> None

----------------------------------------------------------------------------
(* The request bodies the environment sends. *)

ETH == <<"E","T","H">>
BTC == <<"B","T","C">>

Symbols ==
    { JNone,                                              \* no "symbol"
      JNum(5),                                            \* not a string
      JStr(<<"E","T","H","U","S","D","T",".","P">>),
      JStr(<<"e","t","h","u","s","d","t">>),
      JStr(<<"B","T","C","U","S","D","T">>),
      JStr(<<"E","T","H","U","S","D">>),
      JStr(<<"U","S","D","T",".","e","t","h">>),          \* empty base
      JStr(<<".","P">>) }

Sides ==
    { JNone,
      JNum(1),
      JStr(<<"L","o","n","g">>),
      JStr(<<" ","s","h","o","r","t"," ">>),
      JStr(<<"B","u","y">>) }

Prices ==
    { JNone,
      JNum(0),
      JNum(0 - 5 * Scale),
      JStr(<<"3","0","0","0">>),
      JStr(<<"0",".","3","3">>),
      JStr(<<"a","b","c">>),
      JStr(<<"0">>),
      JStr(<<"-","5">>) }

\* request.get_json(force=True): a JSON object with the three fields, or a
\* body get_json() rejects
Requests ==
    { [body |-> "object", symbol |-> y, side |-> d, entry_price |-> p] :
        y \in Symbols, d \in Sides, p \in Prices }
    \cup { [body |-> "invalid", symbol |-> JNone, side |-> JNone,
            entry_price |-> JNone] }

NoRequest ==
    [body |-> "none", symbol |-> JNone, side |-> JNone, entry_price |-> JNone]

----------------------------------------------------------------------------
(* webhook(), lines 170-198: input validation.  status 0 means the request *)
(* goes on to the CCXT client.                                             *)

Verdict(status, kind, base, price) ==
    [status |-> status, kind |-> kind, base |-> base, price |-> price]

\* a validation without the float(entry_price) test
ValidateRequestNoPriceTest(r) ==
    IF r.body # "object"
    THEN Verdict(500, "unexpected", <<>>, None)
    ELSE IF ~(Truthy(r.symbol) /\ Truthy(r.side) /\ Truthy(r.entry_price))
    THEN Verdict(400, "missing", <<>>, None)
    ELSE IF r.symbol.t # "str"
    THEN Verdict(500, "unexpected", <<>>, None)
    ELSE LET coin_raw == SplitDotFirst(Upper(r.symbol.s))
         IN  IF EndsWith(coin_raw, USDT)
             THEN Verdict(0, "ok", SubSeq(coin_raw, 1, Len(coin_raw) - 4),
                          ToFloat(r.entry_price))
             ELSE Verdict(400, "symbol_format", <<>>, None)

ValidateRequest(r) ==
    IF r.body # "object"
    THEN Verdict(500, "unexpected", <<>>, None)
    ELSE IF ~(Truthy(r.symbol) /\ Truthy(r.side) /\ Truthy(r.entry_price))
    THEN Verdict(400, "missing", <<>>, None)
    ELSE IF ToFloat(r.entry_price) = None
    THEN Verdict(400, "price_format", <<>>, None)
    ELSE IF r.symbol.t # "str"
    THEN Verdict(500, "unexpected", <<>>, None)   \* coin.upper() raises
    ELSE LET coin_raw == SplitDotFirst(Upper(r.symbol.s))
         IN  IF EndsWith(coin_raw, USDT)
             THEN Verdict(0, "ok", SubSeq(coin_raw, 1, Len(coin_raw) - 4),
                          ToFloat(r.entry_price))
             ELSE Verdict(400, "symbol_format", <<>>, None)

----------------------------------------------------------------------------
(* The venue, as the environment plays it. *)

Market(symbol, type, base, id, aprec, pprec) ==
    [symbol |-> symbol, type |-> type, base |-> base, quote |-> USDT,
     id |-> id, aprec |-> aprec, pprec |-> pprec]

SwapETH == Market("ETH/USDT:USDT", "swap", ETH, "ETH_USDT", 2, 2)
SwapETHb == Market("ETH/USDT:USDT-B", "swap", ETH, "ETH_USDT_B", 0, 1)
SpotETH == Market("ETH/USDT", "spot", ETH, "ETHUSDT", 3, 2)
SwapBTC == Market("BTC/USDT:USDT", "swap", BTC, "BTC_USDT", 3, 1)

\* what load_markets() can leave in exchange.markets, in the dict's order
Catalogs ==
    { <<SpotETH, SwapETH, SwapETHb>>,
      <<SwapBTC, SpotETH>>,
      <<>> }

HttpReply(net, status, json, success, code, hasData) ==
    [net |-> net, status |-> status, json |-> json, success |-> success,
     code |-> code, hasData |-> hasData]

\* what requests.post(..., timeout=10) can do: raise (timeout, connection
\* failure), or return a status and a body; a decoded body carries or lacks
\* "success" (true/false), "code" ("0", the number 0, another code) and "data"
HttpReplies ==
    { HttpReply("timeout", 0, "none", "absent", "absent", FALSE),
      HttpReply("ok", 500, "object", "false", "other", FALSE),
      HttpReply("ok", 201, "object", "true", "0", TRUE),
      HttpReply("ok", 200, "invalid", "absent", "absent", FALSE) }
    \cup { HttpReply("ok", 200, "object", u, c, u = "true") :
             u \in {"absent", "false", "true"},
             c \in {"absent", "0", "int0", "other"} }

NoReply == HttpReply("none", 0, "none", "absent", "absent", FALSE)
NoHttp == [entry |-> NoReply, tp |-> NoReply]

\* bal before fetch_balance() is called
NoBalance ==
    [fetch |-> "none", free |-> [k |-> "absent", v |-> 0], info |-> "absent",
     ab |-> None, ac |-> None]

----------------------------------------------------------------------------
(* sign_request(), lines 54-61.  A parameter dict is the sequence of its      *)
(* (key, value) items in insertion order; keys are texts, values are texts    *)
(* or integers, as place_mexc_futures_order builds them (lines 122-134).      *)

Item(k, v) == [k |-> k, v |-> v]

\* the code point order of the characters keys are written with
CodeOrder == Digits \o UpperAlpha \o <<"_">> \o LowerAlpha
Code(c) == CHOOSE i \in 1..Len(CodeOrder) : CodeOrder[i] = c

\* a < b for two texts, as Python compares str
RECURSIVE TextLess(_, _)
TextLess(a, b) ==
    IF b = <<>> THEN FALSE
    ELSE IF a = <<>> THEN TRUE
    ELSE IF a[1] # b[1] THEN Code(a[1]) < Code(b[1])
    ELSE TextLess(Tail(a), Tail(b))

\* `item` put in its place in the sorted sequence `sorted` (after equal keys)
RECURSIVE Insert(_, _)
Insert(item, sorted) ==
    IF sorted = <<>> THEN <<item>>
    ELSE IF TextLess(item.k, sorted[1].k) THEN <<item>> \o sorted
    ELSE <<sorted[1]>> \o Insert(item, Tail(sorted))

\* sorted(params.items(), key=lambda x: x[0])
RECURSIVE SortedItems(_)
SortedItems(items) ==
    IF items = <<>> THEN <<>>
    ELSE Insert(items[Len(items)],
                SortedItems(SubSeq(items, 1, Len(items) - 1)))

\* str(n) of an integer n >= 0
RECURSIVE IntText(_)
IntText(n) ==
    IF n < 10 THEN <<Digits[n + 1]>>
    ELSE IntText(n \div 10) \o <<Digits[(n % 10) + 1]>>

\* f"{v}" of a parameter value
Format(v) == IF v.t = "str" THEN v.s ELSE IntText(v.n)

\* "&".join(pairs)
RECURSIVE JoinAmp(_)
JoinAmp(pairs) ==
    IF pairs = <<>> THEN <<>>
    ELSE IF Len(pairs) = 1 THEN pairs[1]
    ELSE pairs[1] \o <<"&">> \o JoinAmp(Tail(pairs))

\* v != ""
NotEmptyText(v) == v # JStr(<<>>)

\* a signer that joins the items in the order the dict holds them
SignedItemsUnsorted(items) ==
    SelectSeq(items, LAMBDA it : NotEmptyText(it.v))

\* the (key, value) items signed, in the order they are signed
SignedItems(items) ==
    SelectSeq(SortedItems(items), LAMBDA it : NotEmptyText(it.v))

\* line 57: the query text that is signed
Query(items) ==
    LET signed == SignedItems(items)
    IN  JoinAmp([i \in 1..Len(signed) |->
                    signed[i].k \o <<"=">> \o Format(signed[i].v)])

\* hmac.new(secret, query, sha256).hexdigest(): a digest taken to be injective,
\* so it is the pair it is computed from
Hmac(secret, text) == <<secret, text>>

\* MEXC_API_SECRET
ApiSecret == "MEXC_API_SECRET"

\* lines 54-61
sign_request(items) == Hmac(ApiSecret, Query(items))

NoSigning == [stage |-> "none", params |-> <<>>, signature |-> <<>>,
              variant |-> <<>>, variant_signature |-> <<>>]

\* exchange.markets: None or a dict; `loaded` tells whether load_markets()
\* returned
NoMarkets == [k |-> "none", m |-> <<>>, loaded |-> FALSE]
Dict(m) == [k |-> "dict", m |-> m, loaded |-> TRUE]
EmptyDict == [k |-> "dict", m |-> <<>>, loaded |-> FALSE]

Unresolved == [base |-> <<>>, unified_symbol |-> "", market_id |-> ""]

\* one outbound call; the fields an order submission does not use are 0/None
Call(kind, symbol, side, positionType, type, price, vol) ==
    [kind |-> kind, symbol |-> symbol, side |-> side,
     positionType |-> positionType, type |-> type, price |-> price,
     vol |-> vol]

\* `value` is the balance an error message about the balance interpolates
NoResponse == [status |-> 0, kind |-> "none", open_order |-> "none",
               tp_order |-> "none", value |-> None]

\* an error body returned without its status: Flask answers 200
ErrorResponseNoStatus(status, kind) ==
    [status |-> 200, kind |-> kind, open_order |-> "none",
     tp_order |-> "none", value |-> None]

\* jsonify({"error": msg}), status
ErrorResponse(status, kind) ==
    [status |-> status, kind |-> kind, open_order |-> "none",
     tp_order |-> "none", value |-> None]

NoQty == [v |-> None, how |-> "none", num |-> 0, den |-> 1]
NoTp == [price |-> None, how |-> "none", resp |-> "none", raised |-> FALSE]

Init ==
    /\ pc = "idle"
    /\ req = NoRequest
    /\ calls = <<>>
    /\ markets = NoMarkets
    /\ resolved = Unresolved
    /\ entry_price = None
    /\ usdt_bal = None
    /\ is_long = FALSE
    /\ lev = "none"
    /\ qty = NoQty
    /\ entry = "none"
    /\ open_resp = "none"
    /\ tp = NoTp
    /\ http = NoHttp
    /\ response = NoResponse
    /\ bal = NoBalance
    /\ signing = NoSigning

\* return jsonify(...), status: the handler ends here
Finish(resp) ==
    /\ pc' = "done"
    /\ response' = resp

\* except Exception as e (line 339): the handler's catch-all
Unexpected == Finish(ErrorResponse(500, "unexpected"))

----------------------------------------------------------------------------
(* webhook(), lines 170-198 *)

Validate ==
    /\ pc = "idle"
    /\ \E r \in Requests :
        LET v == ValidateRequest(r)
        IN  /\ req' = r
            /\ IF v.status = 0
               THEN /\ pc' = "load"
                    /\ resolved' = [resolved EXCEPT !.base = v.base]
                    /\ entry_price' = v.price
                    /\ UNCHANGED response
               ELSE /\ Finish(ErrorResponse(v.status, v.kind))
                    /\ UNCHANGED <<resolved, entry_price>>
    /\ UNCHANGED <<calls, markets, usdt_bal, is_long, lev, qty, entry, open_resp,
                   tp, http,
                   bal, signing>>

(* webhook(), lines 203-220: a fresh ccxt.mexc client, then load_markets().   *)
(* A failed load is logged and leaves exchange.markets as the constructor set *)
(* it: None in CCXT's base class, modelled together with an empty dict.       *)
LoadMarkets ==
    /\ pc = "load"
    /\ calls' = Append(calls, Call("load_markets", "", 0, 0, 0, None, None))
    /\ \/ \E c \in Catalogs : markets' = Dict(c)
       \/ markets' \in {NoMarkets, EmptyDict}
    /\ pc' = "resolve"
    /\ UNCHANGED <<req, resolved, entry_price, usdt_bal, is_long, lev, qty,
                   entry, open_resp, tp, http, response,
                   bal, signing>>

\* a resolution that falls back on any market of the pair, spot included
MatchingAnyType(m, base, quote) ==
    {i \in 1..Len(m) : m[i].base = base /\ m[i].quote = quote}

\* the markets of the dict with type swap and the base and quote asked for
\* (the handler takes the first)
MatchingSwap(m, base, quote) ==
    {i \in 1..Len(m) :
        m[i].type = "swap" /\ m[i].base = base /\ m[i].quote = quote}

(* webhook(), lines 222-234 *)
Resolve ==
    /\ pc = "resolve"
    /\ IF markets.k = "none"
       THEN /\ Unexpected          \* None.items() raises AttributeError
            /\ UNCHANGED resolved
       ELSE LET hits == MatchingSwap(markets.m, resolved.base, USDT)
                first == markets.m[SetMin(hits)]
            IN  IF hits = {} \/ first.id = ""
                THEN /\ Finish(ErrorResponse(400, "no_swap_market"))
                     /\ UNCHANGED resolved
                ELSE /\ resolved' = [resolved EXCEPT
                                       !.unified_symbol = first.symbol,
                                       !.market_id = first.id]
                     /\ pc' = "balance"
                     /\ UNCHANGED response
    /\ UNCHANGED <<req, calls, markets, entry_price, usdt_bal, is_long, lev,
                   qty, entry, open_resp, tp, http,
                   bal, signing>>

----------------------------------------------------------------------------
(* webhook(), lines 236-267: the balance read *)

Absent == [k |-> "absent", v |-> 0]

\* the free balances tried are the multiples of 100 USDT up to this many
MaxBalanceSteps == 1
BalanceStep == 100 * Scale

BalanceReply(fetch, free, info, ab, ac) ==
    [fetch |-> fetch, free |-> free, info |-> info, ab |-> ab, ac |-> ac]

\* what fetch_balance() can do: raise, or return a dict with or without
\* free.USDT and with or without a USDT entry in info.data
BalanceReplies ==
    { BalanceReply("raise", Absent, "absent", None, None),
      BalanceReply("ok", Num(1), "absent", None, None),
      BalanceReply("ok", Num(0), "absent", None, None),
      BalanceReply("ok", None, "absent", None, None),
      BalanceReply("ok", Absent, "entry", Num(50 * Scale), None),
      BalanceReply("ok", Absent, "entry", Num(0), Num(20 * Scale)),
      BalanceReply("ok", Absent, "entry", None, None),
      BalanceReply("ok", Absent, "no_usdt", None, None),
      BalanceReply("ok", Absent, "absent", None, None) }
    \cup { BalanceReply("ok", Num(k * BalanceStep), "absent", None, None) :
             k \in 1..MaxBalanceSteps }

\* float(None) raises TypeError
Raise == [k |-> "raise", v |-> 0]

PyTruthy(x) == x.k = "num" /\ x.v # 0

\* lines 245-258: usdt_bal as the handler extracts it; "raise" where float()
\* of the value raises
ExtractBalance(b) ==
    IF b.free.k # "absent"
    THEN IF b.free.k = "none" THEN Raise ELSE b.free
    ELSE IF b.info = "entry"
         THEN IF PyTruthy(b.ab) THEN b.ab
              ELSE IF PyTruthy(b.ac) THEN b.ac
              ELSE None
         ELSE None

\* a handler that goes on with whatever balance it found
BalanceOutcomeLenient(b) ==
    IF b.fetch = "raise" \/ ExtractBalance(b) = Raise
    THEN ErrorResponse(500, "balance_error")
    ELSE NoResponse

\* lines 259-266: the answer the balance step ends the request with, or
\* NoResponse when the handler goes on
BalanceOutcome(b) ==
    IF b.fetch = "raise" \/ ExtractBalance(b) = Raise
    THEN ErrorResponse(500, "balance_error")       \* "Bakiye alinamadi: ..."
    ELSE IF ExtractBalance(b) = None \/ ExtractBalance(b).v <= 0
    THEN [ErrorResponse(400, "insufficient_balance")   \* "Yetersiz bakiye: ..."
             EXCEPT !.value = ExtractBalance(b)]
    ELSE NoResponse

FetchBalance ==
    /\ pc = "balance"
    /\ \E hasSwap \in BOOLEAN, b \in BalanceReplies :
        /\ bal' = b
        /\ calls' = Append(calls,
               Call(IF hasSwap THEN "fetch_balance_swap" ELSE "fetch_balance",
                    "", 0, 0, 0, None, None))
        /\ usdt_bal' = IF b.fetch = "raise" \/ ExtractBalance(b) = Raise
                       THEN usdt_bal
                       ELSE ExtractBalance(b)
        /\ IF BalanceOutcome(b) # NoResponse
           THEN Finish(BalanceOutcome(b))
           ELSE pc' = "leverage" /\ UNCHANGED response
    /\ UNCHANGED <<req, markets, resolved, entry_price, is_long, lev, qty,
                   entry, open_resp, tp, http,
                   signing>>

----------------------------------------------------------------------------
(* webhook(), lines 269-276: the leverage setting *)

\* side.strip().lower() == "long"
IsLong(side) == Lower(Strip(side)) = LONG

\* params = {"openType": 1, "positionType": 1 if is_long else 2}
LeveragePositionType(long) == IF long THEN 1 ELSE 2

\* a handler that answers 500 when the leverage cannot be set
LeverageFailedFatal == Finish(ErrorResponse(500, "leverage_error"))

\* a handler that never calls set_leverage
SetLeverageOmitted ==
    /\ pc = "leverage"
    /\ is_long' = IsLong(req.side.s)
    /\ pc' = "size"
    /\ UNCHANGED <<req, calls, markets, resolved, entry_price, usdt_bal, lev,
                   qty, entry, open_resp, tp, http, response,
                   bal, signing>>

\* lines 275-276: the failure is logged and the handler goes on
LeverageFailed ==
    /\ pc' = "size"
    /\ UNCHANGED response

SetLeverage ==
    /\ pc = "leverage"
    /\ IF req.side.t # "str"
       THEN /\ Unexpected             \* side.strip() raises AttributeError
            /\ UNCHANGED <<calls, is_long, lev>>
       ELSE /\ is_long' = IsLong(req.side.s)
            /\ calls' = Append(calls,
                   Call("set_leverage", resolved.unified_symbol, 0,
                        LeveragePositionType(is_long'), 0, None, None))
            /\ \/ /\ lev' = "set"
                  /\ pc' = "size"
                  /\ UNCHANGED response
               \/ /\ lev' = "raised"
                  /\ LeverageFailed
    /\ UNCHANGED <<req, markets, resolved, entry_price, usdt_bal, qty,
                   entry, open_resp, tp, http,
                   bal, signing>>

----------------------------------------------------------------------------
(* webhook(), lines 278-288: the quantity *)

\* n/d rounded to the nearest integer, ties to even: round()
RoundHalfEven(n, d) ==
    LET q == n \div d
        r == n % d
    IN  IF 2 * r < d THEN q
        ELSE IF 2 * r > d THEN q + 1
        ELSE IF q % 2 = 0 THEN q ELSE q + 1

\* n/d cut to `decimals` decimals (CCXT truncates amounts), in thousandths
Truncate(n, d, decimals) ==
    ((n * Pow10(decimals)) \div d) * Pow10(QtyDecimals - decimals)

MarketOf(symbol) ==
    CHOOSE m \in {markets.m[i] : i \in 1..Len(markets.m)} : m.symbol = symbol

Size ==
    /\ pc = "size"
    /\ LET num == usdt_bal.v * RISK_RATIO * DEFAULT_LEVERAGE
           den == entry_price.v
       IN  IF den = 0
           THEN /\ Unexpected                     \* ZeroDivisionError
                /\ UNCHANGED qty
           ELSE IF (num > 0) # (den > 0)          \* qty <= 0 (num is never 0)
           THEN /\ Finish(ErrorResponse(400, "qty_zero"))
                /\ qty' = [qty EXCEPT !.num = num, !.den = den]
           ELSE /\ \/ qty' = [v |-> Num(Truncate(num, den,
                                  MarketOf(resolved.unified_symbol).aprec)),
                              how |-> "precision", num |-> num, den |-> den]
                   \/ qty' = [v |-> Num(RoundHalfEven(num * QtyScale, den)),
                              how |-> "fallback", num |-> num, den |-> den]
                /\ pc' = "entry"
                /\ UNCHANGED response
    /\ UNCHANGED <<req, calls, markets, resolved, entry_price, usdt_bal,
                   is_long, lev, entry, open_resp, tp, http,
                   bal, signing>>

----------------------------------------------------------------------------
(* place_mexc_futures_order(), lines 64-158 *)

\* lines 102-108: the venue's side code, 0 where ValueError is raised
SideParam(side) ==
    LET side_lower == Lower(Strip(side))
    IN  IF side_lower = LONG THEN 1
        ELSE IF side_lower = SHORT THEN 3
        ELSE 0

\* line 112
PositionType(side) == IF Lower(Strip(side)) = LONG THEN 1 ELSE 2

\* lines 116-119: 5 = market, 1 = limit
OrderType(price) == IF price = None THEN 5 ELSE 1

\* a client that takes the success flag alone for a success
AcceptedFlagOnly(h) ==
    /\ h.net = "ok"
    /\ h.status = 200
    /\ h.json = "object"
    /\ h.success = "true"

\* lines 149-156: the reply the function returns a result for
Accepted(h) ==
    /\ h.net = "ok"
    /\ h.status = 200
    /\ h.json = "object"
    /\ ~(h.success # "true" /\ h.code # "0")

\* line 158: data.get("data", data)
OrderData(h) == IF h.hasData THEN "data" ELSE "body"

\* one invocation for the reply `h` of the venue: the requests.post calls it
\* makes (line 149 posts once; an unknown side raises before it) and its
\* result ("raise" or the data returned)
PlaceOrder(symbol, side, quantity, price, h) ==
    IF SideParam(side) = 0
    THEN [posts |-> <<>>, result |-> "raise"]
    ELSE [posts |-> <<Call("order_submit", symbol, SideParam(side),
                           PositionType(side), OrderType(price), price,
                           quantity)>>,
          result |-> IF Accepted(h) THEN OrderData(h) ELSE "raise"]

\* the reply an invocation consumed: none when it raised before posting
Answer(o, h) == IF o.posts = <<>> THEN NoReply ELSE h

----------------------------------------------------------------------------
(* webhook(), lines 290-304: the entry (market) order *)

\* a handler that logs the failed entry order and goes on to the exit order
EntryFailedIgnored ==
    /\ pc' = "tp"
    /\ UNCHANGED response

\* lines 301-304: the entry order raised
EntryFailed == Finish(ErrorResponse(500, "entry_error"))

PlaceEntry ==
    /\ pc = "entry"
    /\ \E h \in HttpReplies :
        LET o == PlaceOrder(resolved.market_id, req.side.s, qty.v, None, h)
        IN  /\ calls' = calls \o o.posts
            /\ http' = [http EXCEPT !.entry = Answer(o, h)]
            /\ IF o.result = "raise"
               THEN /\ entry' = "raised"
                    /\ EntryFailed
                    /\ UNCHANGED open_resp
               ELSE /\ entry' = "returned"
                    /\ open_resp' = o.result
                    /\ pc' = "tp"
                    /\ UNCHANGED response
    /\ UNCHANGED <<req, markets, resolved, entry_price, usdt_bal, is_long,
                   lev, qty, tp,
                   bal, signing>>

----------------------------------------------------------------------------
(* webhook(), lines 306-337: the take-profit (limit) order and the reply *)

\* 1.004 and 0.996, as thousandths
TpLongFactor == 1004
TpShortFactor == 996
PerMille == Pow10(3)

\* n/d rounded to the nearest integer, ties up (CCXT rounds prices)
RoundHalfUp(n, d) == (2 * n + d) \div (2 * d)

\* line 307, then line 310 (price_to_precision) or line 312 (round(.., 2)):
\* the limit price in hundredths (pprec is at most PriceDecimals)
TpPrice(price, long, how, pprec) ==
    LET num == price * (IF long THEN TpLongFactor ELSE TpShortFactor)
        unit == Pow10(PriceDecimals - pprec)
    IN  IF how = "precision"
        THEN RoundHalfUp(num, PerMille * unit) * unit
        ELSE RoundHalfEven(num, PerMille)

LongSide == <<"L","o","n","g">>
ShortSide == <<"S","h","o","r","t">>

\* line 319: side="Short" if is_long else "Long"
ExitSide(long) == IF long THEN ShortSide ELSE LongSide

\* a reply that reports a failed exit order as a failed request
SuccessResponseStrict(open_order, tp_order) ==
    IF tp_order = "null"
    THEN ErrorResponse(500, "tp_error")
    ELSE [status |-> 200, kind |-> "success", open_order |-> open_order,
          tp_order |-> tp_order, value |-> None]

\* lines 329-337
SuccessResponse(open_order, tp_order) ==
    [status |-> 200, kind |-> "success", open_order |-> open_order,
     tp_order |-> tp_order, value |-> None]

\* lines 315-327: tp_resp stays None when the order raised
TpOrderField(result) == IF result = "raise" THEN "null" ELSE result

PlaceTakeProfit ==
    /\ pc = "tp"
    /\ \E how \in {"precision", "fallback"}, h \in HttpReplies :
        LET tp_price == Num(TpPrice(entry_price.v, is_long, how,
                                    MarketOf(resolved.unified_symbol).pprec))
            o == PlaceOrder(resolved.market_id, ExitSide(is_long), qty.v,
                            tp_price, h)
        IN  /\ calls' = calls \o o.posts
            /\ http' = [http EXCEPT !.tp = Answer(o, h)]
            /\ tp' = [price |-> tp_price, how |-> how,
                      resp |-> TpOrderField(o.result),
                      raised |-> o.result = "raise"]
            /\ Finish(SuccessResponse(open_resp, TpOrderField(o.result)))
    /\ UNCHANGED <<req, markets, resolved, entry_price, usdt_bal, is_long,
                   lev, qty, entry, open_resp,
                   bal, signing>>

----------------------------------------------------------------------------
\* the response is sent; the next request starts from a fresh handler
Respond ==
    /\ pc = "done"
    /\ pc' = "idle"
    /\ req' = NoRequest
    /\ calls' = <<>>
    /\ markets' = NoMarkets
    /\ resolved' = Unresolved
    /\ entry_price' = None
    /\ usdt_bal' = None
    /\ is_long' = FALSE
    /\ lev' = "none"
    /\ qty' = NoQty
    /\ entry' = "none"
    /\ open_resp' = "none"
    /\ tp' = NoTp
    /\ http' = NoHttp
    /\ response' = NoResponse
    /\ bal' = NoBalance
    /\ UNCHANGED signing

Next ==
    \/ Validate
    \/ LoadMarkets
    \/ Resolve
    \/ FetchBalance
    \/ SetLeverage
    \/ Size
    \/ PlaceEntry
    \/ PlaceTakeProfit
    \/ Respond

Spec == Init /\ [][Next]_vars

----------------------------------------------------------------------------
(* sign_request(), lines 54-61, on the parameters of an order, lines 122-134 *)

K_symbol == <<"s","y","m","b","o","l">>
K_price == <<"p","r","i","c","e">>
K_vol == <<"v","o","l">>
K_side == <<"s","i","d","e">>
K_openType == <<"o","p","e","n","T","y","p","e">>
K_positionType == <<"p","o","s","i","t","i","o","n","T","y","p","e">>
K_leverage == <<"l","e","v","e","r","a","g","e">>
K_externalOid == <<"e","x","t","e","r","n","a","l","O","i","d">>
K_type == <<"t","y","p","e">>
K_timestamp == <<"t","i","m","e","s","t","a","m","p">>
K_recvWindow == <<"r","e","c","v","W","i","n","d","o","w">>

EmptyText == JStr(<<>>)

\* lines 122-134: the dict place_mexc_futures_order signs, in the order the
\* dict literal lists its keys
OrderParams(symbol, price, vol, side, oid, timestamp) ==
    << Item(K_symbol, JStr(symbol)),
       Item(K_price, IF price = <<>> THEN EmptyText ELSE JStr(price)),
       Item(K_vol, JStr(vol)),
       Item(K_side, JNum(SideParam(side))),
       Item(K_openType, JNum(1)),
       Item(K_positionType, JNum(PositionType(side))),
       Item(K_leverage, JNum(DEFAULT_LEVERAGE)),
       Item(K_externalOid, JStr(oid)),
       Item(K_type, JNum(IF price = <<>> THEN 5 ELSE 1)),
       Item(K_timestamp, JStr(timestamp)),
       Item(K_recvWindow, JNum(5000)) >>

\* the dicts signed: market and limit orders of both sides
SignedParams ==
    { OrderParams(symbol, price, vol, side, oid, timestamp) :
        symbol \in {<<"E","T","H","_","U","S","D","T">>, <<"B","T","C","_","U","S","D","T">>},
        price \in {<<>>, <<"3","0","1","2">>},
        vol \in {<<"0",".","8","3">>},
        side \in {LongSide, ShortSide},
        oid \in {<<"a">>},
        timestamp \in {<<"1">>, <<"2">>} }

\* the values one parameter of a signed dict is changed to: other texts, other
\* numbers, the empty text, and a number and the text that spells it
OtherValues ==
    { EmptyText, JStr(<<"1">>), JStr(<<"3","0","1","2",".","0">>), JStr(<<"5","0","0","0">>), JNum(1), JNum(3), JNum(10),
      JNum(5000) }

\* the dict with the value of its i-th key replaced
WithValue(items, i, v) == [items EXCEPT ![i] = Item(items[i].k, v)]

\* the same dict built in another insertion order
Reversed(items) == [i \in 1..Len(items) |-> items[Len(items) + 1 - i]]
Rotated(items) == Tail(items) \o <<Head(items)>>

BuildParams ==
    /\ signing.stage = "none"
    /\ \E params \in SignedParams :
        signing' = [NoSigning EXCEPT !.stage = "built", !.params = params]

SignRequest ==
    /\ signing.stage = "built"
    /\ signing' = [signing EXCEPT !.stage = "signed",
                                  !.signature = sign_request(signing.params)]

\* one value is changed and the dict is signed again
MutateAndSign ==
    /\ signing.stage = "signed"
    /\ \E i \in 1..Len(signing.params), v \in OtherValues :
        /\ v # signing.params[i].v
        /\ signing' = [signing EXCEPT
               !.stage = "mutated",
               !.variant = WithValue(signing.params, i, v),
               !.variant_signature =
                   sign_request(WithValue(signing.params, i, v))]

\* the same keys and values, inserted in another order, are signed again
ReorderAndSign ==
    /\ signing.stage = "signed"
    /\ \E other \in {signing.params, Reversed(signing.params),
                     Rotated(signing.params)} :
        signing' = [signing EXCEPT
            !.stage = "resigned",
            !.variant = other,
            !.variant_signature = sign_request(other)]

SignDone ==
    /\ signing.stage \in {"mutated", "resigned"}
    /\ signing' = NoSigning

SignNext ==
    /\ \/ BuildParams
       \/ SignRequest
       \/ MutateAndSign
       \/ ReorderAndSign
       \/ SignDone
    /\ UNCHANGED <<pc, req, calls, markets, resolved, entry_price, usdt_bal,
                   is_long, lev, qty, entry, open_resp, tp, http, response,
                   bal>>

SignSpec == Init /\ [][SignNext]_vars

----------------------------------------------------------------------------
(* What the properties below speak of. *)

CallsOf(kind) == {i \in 1..Len(calls) : calls[i].kind = kind}

\* the order submissions posted: market orders (entry), limit orders (exit)
EntryPosts == {i \in CallsOf("order_submit") : calls[i].type = 5}
ExitPosts == {i \in CallsOf("order_submit") : calls[i].type = 1}

\* the venue did not answer the entry order's post with a 2xx status
EntryTransportFailure ==
    /\ http.entry # NoReply
    /\ \/ http.entry.net = "timeout"
       \/ http.entry.status \notin 200..299

\* C1: whenever the entry order submission has failed, whatever the reason, no
\* exit order has been posted for the signal, and the request ends with an
\* error response (500).
C1_EntryFailureIsFatal ==
    (entry = "raised" \/ EntryTransportFailure) =>
        /\ entry = "raised"
        /\ ExitPosts = {}
        /\ tp = NoTp
        /\ pc = "done"
        /\ response.status = 500
        /\ response.kind = "entry_error"

C1_Witness ==
    /\ pc = "done"
    /\ entry = "raised"
    /\ http.entry.net = "timeout"
    /\ Cardinality(EntryPosts) = 1

\* C2: once the entry order was accepted, a failed exit order leaves the
\* request a success: status 200, open_order is the entry result, tp_order is
\* null, and the exit attempt is the last call made (no order follows it).
C2_ExitFailureIsNotFatal ==
    (pc = "done" /\ entry = "returned" /\ tp.raised) =>
        /\ response.status = 200
        /\ response.kind = "success"
        /\ open_resp # "none"
        /\ response.open_order = open_resp
        /\ response.tp_order = "null"
        /\ Cardinality(EntryPosts) = 1
        /\ Cardinality(ExitPosts) = 1
        /\ ExitPosts = {Len(calls)}

C2_Witness ==
    /\ pc = "done"
    /\ entry = "returned"
    /\ tp.raised
    /\ http.tp.net = "timeout"
    /\ response.status = 200

\* C3: every entry order post is preceded by a set_leverage call, and no
\* set_leverage call follows an order post.
C3_LeverageBeforeEntry ==
    /\ \A i \in EntryPosts : \E j \in CallsOf("set_leverage") : j < i
    /\ \A j \in CallsOf("set_leverage") :
           \A i \in CallsOf("order_submit") : j < i
    /\ entry # "none" => lev # "none"

C3_Witness ==
    /\ EntryPosts # {}
    /\ CallsOf("set_leverage") # {}

\* C4: when set_leverage raised, the handler goes on: it ends either at the
\* sizing step (non-positive quantity, division by a zero price) or after
\* calling the entry order with the quantity computed (posting it when the
\* side is one the order client knows); the response is an error only for
\* those later failures, and 200 once the entry order returned.
C4_LeverageFailureIsNotFatal ==
    lev = "raised" =>
        /\ pc \in {"size", "entry", "tp", "done"}
        /\ pc = "done" =>
            \/ /\ qty.how = "none"
               /\ entry = "none"
               /\ response.kind \in {"qty_zero", "unexpected"}
            \/ /\ qty.how # "none"
               /\ entry = "raised"
               /\ response.kind = "entry_error"
               /\ SideParam(req.side.s) # 0 => Cardinality(EntryPosts) = 1
            \/ /\ qty.how # "none"
               /\ entry = "returned"
               /\ Cardinality(EntryPosts) = 1
               /\ response.status = 200

C4_Witness ==
    /\ lev = "raised"
    /\ pc = "done"
    /\ entry = "returned"
    /\ EntryPosts # {}
    /\ response.status = 200

\* C5: when every post of the entry order fails at transport level, the order
\* client has posted it exactly 3 times by the time the handler ends.
C5_ThreeAttempts ==
    (pc = "done" /\ EntryTransportFailure) => Cardinality(EntryPosts) = 3

\* the success flag of a decoded body
SuccessFlag(h) == h.json = "object" /\ h.success = "true"

\* C6 as stated: a posted order returns a result exactly when the status is
\* 2xx and the body carries a true success flag.
C6_SuccessIffFlag ==
    /\ http.entry # NoReply =>
           (entry = "returned" <=>
               (http.entry.net = "ok" /\ http.entry.status \in 200..299
                /\ SuccessFlag(http.entry)))
    /\ (pc = "done" /\ http.tp # NoReply) =>
           (~tp.raised <=>
               (http.tp.net = "ok" /\ http.tp.status \in 200..299
                /\ SuccessFlag(http.tp)))

\* the reply that place_mexc_futures_order takes for a success: status 200
\* exactly, a decoded body, and a true success flag or the code "0"
Code0OrFlag(h) ==
    /\ h.net = "ok"
    /\ h.status = 200
    /\ h.json = "object"
    /\ (h.success = "true" \/ h.code = "0")

\* C6 amended: a posted order returns a result exactly when the status is 200
\* and the decoded body carries a true success flag or the code "0"; so a body
\* without a true success flag fails exactly when its code is not "0".
C6_SuccessIffFlagOrCode0 ==
    /\ http.entry # NoReply => (entry = "returned" <=> Code0OrFlag(http.entry))
    /\ (pc = "done" /\ http.tp # NoReply) =>
           (~tp.raised <=> Code0OrFlag(http.tp))

C6_Witness ==
    /\ entry = "returned"
    /\ http.entry.status = 200
    /\ http.entry.success = "false"
    /\ http.entry.code = "0"

\* a field the handler's first test takes for missing
Missing(v) == v.t = "none" \/ v = JStr(<<>>) \/ v = JNum(0)

\* the request fails validation in one of the ways C7 lists
FailsValidation(r) ==
    /\ r.body = "object"
    /\ \/ Missing(r.symbol) \/ Missing(r.side) \/ Missing(r.entry_price)
       \/ (r.entry_price.t = "str" /\ ParseFloat(r.entry_price.s) = None)
       \/ (r.symbol.t = "str"
           /\ ~EndsWith(SplitDotFirst(Upper(r.symbol.s)), USDT))

\* C7: a request that fails validation is answered 400 without any outbound
\* call (catalog load, balance fetch, leverage set, order submit).
C7_ValidationFailureMakesNoCall ==
    (pc # "idle" /\ FailsValidation(req)) =>
        /\ pc = "done"
        /\ response.status = 400
        /\ response.kind \in {"missing", "price_format", "symbol_format"}
        /\ calls = <<>>

C7_Witness ==
    /\ pc = "done"
    /\ req.entry_price = JStr(<<"a","b","c">>)
    /\ ~Missing(req.symbol)
    /\ ~Missing(req.side)
    /\ response.status = 400
    /\ calls = <<>>

\* the side is present and is neither "long" nor "short", case ignored
UnknownSide(r) ==
    /\ r.body = "object"
    /\ ~Missing(r.side)
    /\ r.side.t = "str" => Lower(r.side.s) \notin {LONG, SHORT}

\* C8 (for the requests that are in order but for the side: the instrument was
\* resolved and a positive balance read): a request whose side is present but
\* neither Long nor Short ends with status 400, and no call treats it as a
\* short signal (no set_leverage with positionType 2, no order with the
\* open-short side code).
C8_UnknownSideIsRejected ==
    (UnknownSide(req) /\ usdt_bal.k = "num" /\ usdt_bal.v > 0) =>
        /\ pc = "done" => response.status = 400
        /\ \A i \in CallsOf("set_leverage") : calls[i].positionType # 2
        /\ \A i \in CallsOf("order_submit") : calls[i].side # 3

\* the markets of the loaded catalog with the base and quote asked for
PairMarkets == {i \in 1..Len(markets.m) :
                  markets.m[i].base = resolved.base
                  /\ markets.m[i].quote = USDT}

SpotOnly ==
    /\ markets.loaded
    /\ PairMarkets # {}
    /\ \A i \in PairMarkets : markets.m[i].type = "spot"

\* C9: when the catalog holds the pair only as a spot market, the request is
\* answered 400 and neither a leverage-set call nor an order is made for it.
C9_SpotOnlyIsRejected ==
    (SpotOnly /\ pc \notin {"idle", "load", "resolve"}) =>
        /\ pc = "done"
        /\ response.status = 400
        /\ response.kind = "no_swap_market"
        /\ CallsOf("set_leverage") = {}
        /\ CallsOf("order_submit") = {}
        /\ resolved.market_id = ""

C9_Witness ==
    /\ SpotOnly
    /\ pc = "done"
    /\ resolved.base = ETH
    /\ response.status = 400

LoadFailed == CallsOf("load_markets") # {} /\ ~markets.loaded

\* C10: after a failed catalog load the request ends with the resolution
\* error of an empty catalog (400), and no balance, leverage or order call is
\* made.
C10_FailedLoadIsClientError ==
    (LoadFailed /\ pc = "done") =>
        /\ response.status = 400
        /\ response.kind = "no_swap_market"
        /\ Len(calls) = 1

LeverageOrOrderCalls == CallsOf("set_leverage") \cup CallsOf("order_submit")

\* a reply of fetch_balance() that holds a positive USDT amount: free.USDT, or
\* else the availableBalance (or, when that is missing or 0, the
\* availableCash) of the USDT entry of info.data
UsableBalance(b) ==
    /\ b.fetch = "ok"
    /\ \/ b.free.k = "num" /\ b.free.v > 0
       \/ /\ b.free.k = "absent"
          /\ b.info = "entry"
          /\ \/ b.ab.k = "num" /\ b.ab.v > 0
             \/ /\ ~(b.ab.k = "num" /\ b.ab.v # 0)
                /\ b.ac.k = "num" /\ b.ac.v > 0

\* the balance step has run and failed
BalanceFailed == bal.fetch # "none" /\ ~UsableBalance(bal)

\* the failures of the balance step that are no reading of a balance at all:
\* fetch_balance() raised, or free.USDT is there and is no number
BalanceUnreadable ==
    bal.fetch = "raise" \/ (bal.fetch = "ok" /\ bal.free.k = "none")

\* C11 as stated: a failed balance step ends the request with a client error
\* (4xx) and without a leverage-set call or an order submission.
C11_BalanceFailureIsClientError ==
    BalanceFailed =>
        /\ pc = "done"
        /\ response.status \in 400..499
        /\ LeverageOrOrderCalls = {}

\* C11 amended: a failed balance step ends the request without a leverage-set
\* call or an order submission; the answer is 400 when the reply holds no USDT
\* amount or one that is zero or negative, and 500 when fetch_balance() raised
\* or the amount found is no number.
C11_BalanceFailureEndsRequest ==
    BalanceFailed =>
        /\ pc = "done"
        /\ LeverageOrOrderCalls = {}
        /\ Len(calls) = 2
        /\ response.status = IF BalanceUnreadable THEN 500 ELSE 400
        /\ response.kind = IF BalanceUnreadable THEN "balance_error"
                           ELSE "insufficient_balance"

C11_Witness ==
    /\ pc = "done"
    /\ bal.fetch = "raise"
    /\ response.status = 500
    /\ Len(calls) = 2

\* the three balance failures C12 tells apart
BalanceCase(b) ==
    IF b.fetch = "raise" THEN "transport"
    ELSE IF b.free.k = "absent"
            /\ (b.info # "entry" \/ (b.ab.k = "none" /\ b.ac.k = "none"))
    THEN "field_missing"
    ELSE IF b.free = Num(0) THEN "zero"
    ELSE "other"

Outcome(r) == <<r.status, r.kind>>

\* C12: the answer to a balance failure of one of the three cases (field not
\* present, zero balance, transport failure) differs, in status or in error
\* kind, from the answer to any failure of another of the three cases.
C12_BalanceFailuresAreDistinct ==
    (pc = "done" /\ BalanceFailed /\ BalanceCase(bal) # "other") =>
        \A b \in BalanceReplies :
            (BalanceCase(b) \notin {"other", BalanceCase(bal)}) =>
                Outcome(BalanceOutcome(b)) # Outcome(response)

\* C13: the quantity the handler settles on, by amount_to_precision or by the
\* fallback round(qty, 3), is never more than the unrounded
\* (usdt_bal * RISK_RATIO * DEFAULT_LEVERAGE) / entry_price.
C13_RoundingNeverIncreases ==
    (qty.how # "none" /\ qty.num > 0 /\ qty.den > 0) =>
        qty.v.v * qty.den <= qty.num * QtyScale

\* C14: no entry order is posted with a quantity that is zero or negative.
C14_NoEntryWithoutQuantity ==
    \A i \in EntryPosts : calls[i].vol.v > 0

\* the side codes that open a position: 1 = open long, 3 = open short
OpeningSides == {SideParam(LongSide), SideParam(ShortSide)}

\* C15: no exit order is posted with a side code that opens a position.
C15_ExitIsReduceOnly ==
    \A i \in ExitPosts : calls[i].side \notin OpeningSides

\* the distance of a and b
Dist(a, b) == IF a < b THEN b - a ELSE a - b

\* C16: the limit price of the exit order is entry_price * 1.004 for a long
\* and entry_price * 0.996 for a short signal, rounded to the price precision
\* of the instrument (a multiple of its price step, within half a step of the
\* product); it is above the entry price for a long and below it for a short.
C16_TakeProfitPrice ==
    (tp.price # None) =>
        LET step == Pow10(PriceDecimals
                          - MarketOf(resolved.unified_symbol).pprec)
            target == entry_price.v
                      * (IF is_long THEN TpLongFactor ELSE TpShortFactor)
        IN  /\ tp.price.v % step = 0
            /\ 2 * Dist(tp.price.v * PerMille, target) <= step * PerMille
            /\ is_long => tp.price.v > entry_price.v
            /\ ~is_long => tp.price.v < entry_price.v

\* C17 as stated: signing the same parameters again, in whatever order they
\* were inserted, gives the same signature, and a dict that differs from the
\* signed one in the value of one parameter has another signature.
C17_AnyChangedValueChangesSignature ==
    /\ signing.stage = "resigned" =>
           signing.variant_signature = signing.signature
    /\ signing.stage = "mutated" =>
           signing.variant_signature # signing.signature

ChangedAt ==
    CHOOSE i \in 1..Len(signing.params) :
        signing.variant[i] # signing.params[i]

\* C17 amended: signing the same parameters again, in whatever order they were
\* inserted, gives the same signature, and a dict that differs from the signed
\* one in the value of one parameter has another signature exactly when the
\* text that value is signed as (its str()) differs.
C17_ChangedTextChangesSignature ==
    /\ signing.stage = "resigned" =>
           signing.variant_signature = signing.signature
    /\ signing.stage = "mutated" =>
           ( signing.variant_signature # signing.signature
             <=> Format(signing.variant[ChangedAt].v)
                   # Format(signing.params[ChangedAt].v) )

\* the limit price of a limit order was changed, and so was the signature
C17_Witness ==
    /\ signing.stage = "mutated"
    /\ signing.params[2].v # EmptyText
    /\ signing.variant[2].v \notin {EmptyText, signing.params[2].v}
    /\ signing.variant_signature # signing.signature

\* C18: the set_leverage call is made only after sizing has succeeded: a
\* request that sizing ends (quantity zero or negative) has made no
\* set_leverage call.
C18_LeverageOnlyAfterSizing ==
    (pc = "done" /\ response.kind = "qty_zero") =>
        CallsOf("set_leverage") = {}

\* the entry order was posted and the venue's reply is one the order client
\* returns a result for
EntryAccepted == EntryPosts # {} /\ Accepted(http.entry)

\* C19: a request ends with 200 and "success" exactly when its entry order was
\* posted and accepted, and with 400 or 500 otherwise; no request posts more
\* than one entry order or more than one exit order.
C19_SuccessIffEntryAccepted ==
    /\ Cardinality(EntryPosts) <= 1
    /\ Cardinality(ExitPosts) <= 1
    /\ pc = "done" =>
        /\ EntryAccepted <=> response.status = 200
        /\ EntryAccepted <=> response.kind = "success"
        /\ ~EntryAccepted => response.status \in {400, 500}
    /\ EntryAccepted => pc \in {"tp", "done"}

C19_Witness ==
    /\ pc = "done"
    /\ response.status = 200
    /\ response.kind = "success"
    /\ Cardinality(EntryPosts) = 1
    /\ Cardinality(ExitPosts) = 1
    /\ Accepted(http.entry)
    /\ Accepted(http.tp)

====
